---- MODULE Spec2Model ----
(***************************************************************************)
(* A model of the geohash-pair comparison scripts:                         *)
(*   src/enhanced_comparison.py   (class EnhancedAPIComparison)            *)
(*   src/api_comparison_script.py (class GoogleAPIComparison)              *)
(*                                                                         *)
(* Python strings are TLA+ strings, taken apart with the operators of      *)
(* Sequences, so that concatenation, startswith/endswith, substring tests  *)
(* and float() act on characters as they do in the code.  Python values    *)
(* are tagged records; a dict is an insertion-ordered sequence of <<key,   *)
(* value>> entries with unique keys.  Numbers are integers, except the     *)
(* decoded coordinates, which are exact binary fractions.                  *)
(***************************************************************************)
EXTENDS Integers, Sequences, FiniteSets, TLC

VARIABLES
  script,        \* which program runs: "enhanced" or "basic"
  table,         \* the input DataFrame: a sequence of rows (dicts of cells)
  index,         \* 0-based position of the loop in the table
  pc,            \* position of the processing loop
  cx_geohash,    \* the row's customer geohash cell
  rx_geohash,    \* the row's restaurant geohash cell
  coords,        \* <<cx_lat, cx_lng, rx_lat, rx_lng>> of the row
  directions_resp, \* Service A's response for the row
  routes_resp,   \* Service B's response for the row
  results,       \* the ResultSet: the list of assembled rows
  calls,         \* history of the service calls issued
  visited,       \* history of the input positions the loop has entered
  output,        \* the table written at the end
  ex_pc,         \* extract_key_metrics harness: position
  ex_directions, \* extract_key_metrics harness: Service A response
  ex_routes,     \* extract_key_metrics harness: Service B response
  ex_metrics,    \* extract_key_metrics harness: the returned mapping
  fl_pc,         \* flatten harness: position
  fl_tree,       \* flatten harness: the input tree
  fl_prefix,     \* flatten harness: the prefix
  fl_dict,       \* flatten harness: result of flatten_dict
  fl_json        \* flatten harness: result of flatten_json

loopVars == <<script, table, index, pc, cx_geohash, rx_geohash, coords,
              directions_resp, routes_resp, results, calls, visited, output>>
exVars == <<ex_pc, ex_directions, ex_routes, ex_metrics>>
flVars == <<fl_pc, fl_tree, fl_prefix, fl_dict, fl_json>>
vars == <<loopVars, exVars, flVars>>

----------------------------------------------------------------------------
(* Python values.                                                          *)

Num(n) == [t |-> "num", n |-> n]
Str(s) == [t |-> "str", s |-> s]
Bool(b) == [t |-> "bool", b |-> b]
None == [t |-> "none"]
NaN == [t |-> "nan"]
Map(e) == [t |-> "map", e |-> e]
List(l) == [t |-> "list", l |-> l]
\* A raised exception, as the outcome of evaluating an expression.
Exc(type) == [t |-> "exc", type |-> type]
IsExc(v) == v.t = "exc"
\* str(e): the message is abstracted to the exception's class name.
ExcText(e) == Str(e.type)

\* The element of a one-element set.  Only({ F(x) : x \in {v} }) is F(v)
\* with v evaluated once, where LET x == v IN F(x) evaluates v at each use
\* of x when TLC evaluates ENABLED.
Only(S) == CHOOSE x \in S : TRUE

(* dict operations on the entries of an insertion-ordered dict.            *)
Has(e, k) == \E d \in {e}, key \in {k} : \E i \in 1..Len(d) : d[i][1] = key
Lookup(e, k) == Only({ d[CHOOSE i \in 1..Len(d) : d[i][1] = key][2] : d \in {e}, key \in {k} })
\* d[k] = v: an existing key keeps its position and takes the new value.
Put(e, k, v) ==
  Only({ IF Has(d, key) THEN [i \in 1..Len(d) |-> IF d[i][1] = key THEN <<key, v>> ELSE d[i]]
         ELSE Append(d, <<key, v>>) : d \in {e}, key \in {k} })
\* d.update(items) and dict(items): the entries applied in order.
RECURSIVE Update(_, _)
Update(e, items) ==
  Only({ IF its = <<>> THEN d ELSE Update(Put(d, its[1][1], its[1][2]), Tail(its))
         : d \in {e}, its \in {items} })
KeysOf(e) == {e[i][1] : i \in 1..Len(e)}
\* d.get(k, default) on a dict's entries.
EGet(e, k, default) ==
  Only({ IF Has(d, k) THEN Lookup(d, k) ELSE default : d \in {e} })

(* str operations.                                                         *)
\* The separator of composite keys (sep='_').
US == "_"
\* The i-th character of s, as a string.
Char(s, i) == SubSeq(s, i, i)
StartsWith(s, p) == Len(s) >= Len(p) /\ SubSeq(s, 1, Len(p)) = p
EndsWith(s, p) == Len(s) >= Len(p) /\ SubSeq(s, Len(s) - Len(p) + 1, Len(s)) = p
\* needle in haystack
IsSubstring(needle, s) ==
  \E i \in 1..(Len(s) + 1) :
    i + Len(needle) - 1 <= Len(s) /\ SubSeq(s, i, i + Len(needle) - 1) = needle

Digits == "0123456789"
DigitSet == {Char(Digits, i) : i \in 1..Len(Digits)}
DigitVal(c) == (CHOOSE i \in 1..Len(Digits) : Char(Digits, i) = c) - 1
\* str(n) for an integer n.
RECURSIVE NatStr(_)
NatStr(n) == IF n < 10 THEN Char(Digits, n + 1) ELSE NatStr(n \div 10) \o Char(Digits, (n % 10) + 1)
IntStr(n) == IF n < 0 THEN "-" \o NatStr(0 - n) ELSE NatStr(n)
RECURSIVE DigitsVal(_)
DigitsVal(s) == IF s = "" THEN 0 ELSE 10 * DigitsVal(SubSeq(s, 1, Len(s) - 1)) + DigitVal(Char(s, Len(s)))
\* float(s), on strings of signs, digits and letters: an optionally signed
\* run of digits is its value, anything else raises ValueError.
ParseFloat(s) ==
  LET signed == s # "" /\ Head(s) \in {"-", "+"}
      body == IF signed THEN Tail(s) ELSE s
  IN IF body = "" \/ \E i \in 1..Len(body) : Char(body, i) \notin DigitSet
     THEN Exc("ValueError")
     ELSE Num(IF signed /\ Head(s) = "-" THEN 0 - DigitsVal(body) ELSE DigitsVal(body))

Abs(n) == IF n < 0 THEN 0 - n ELSE n

(* Python's operators on values, with the exceptions they raise.           *)
\* bool(v)
Truthy(v) ==
  CASE v.t = "num" -> v.n # 0
    [] v.t = "str" -> v.s # ""
    [] v.t = "bool" -> v.b
    [] v.t = "none" -> FALSE
    [] v.t = "nan" -> TRUE
    [] v.t = "map" -> v.e # <<>>
    [] v.t = "list" -> v.l # <<>>
\* k in x, for a str k
Contains(x, k) ==
  CASE x.t = "map" -> Bool(Has(x.e, k))
    [] x.t = "list" -> Bool(\E i \in 1..Len(x.l) : x.l[i] = Str(k))
    [] x.t = "str" -> Bool(IsSubstring(k, x.s))
    [] OTHER -> Exc("TypeError")
\* x[k], for a str k
GetItem(x, k) ==
  CASE x.t = "map" -> IF Has(x.e, k) THEN Lookup(x.e, k) ELSE Exc("KeyError")
    [] OTHER -> Exc("TypeError")
\* x[0]
Index0(x) ==
  CASE x.t = "list" -> IF x.l = <<>> THEN Exc("IndexError") ELSE x.l[1]
    [] x.t = "str" -> IF x.s = "" THEN Exc("IndexError") ELSE Str(Head(x.s))
    [] x.t = "map" -> Exc("KeyError")
    [] OTHER -> Exc("TypeError")
\* Mutant of DictGet: the subscript x[k] in place of x.get(k, default).
DictGet_Subscript(x, k, default) == GetItem(x, k)
\* x.get(k, default)
DictGet(x, k, default) ==
  IF x.t = "map" THEN EGet(x.e, k, default) ELSE Exc("AttributeError")
\* x.get(k1, {}).get(k2, default)
DictGetGet(x, k1, k2, default) ==
  LET inner == DictGet(x, k1, Map(<<>>))
  IN IF IsExc(inner) THEN inner ELSE DictGet(inner, k2, default)
\* x > 0
Gt0(x) ==
  CASE x.t = "num" -> Bool(x.n > 0)
    [] x.t = "bool" -> Bool(x.b)
    [] x.t = "nan" -> Bool(FALSE)
    [] OTHER -> Exc("TypeError")
\* the integer value of a number or a bool (True is 1)
AsInt(x) == IF x.t = "bool" THEN (IF x.b THEN 1 ELSE 0) ELSE x.n

(* A try body as a list of steps: an assignment metrics[k] = v, or the     *)
(* exception its right-hand side (or a condition before it) raised.        *)
Set(k, v) == IF IsExc(v) THEN v ELSE [t |-> "set", k |-> k, v |-> v]
\* Runs the steps in order up to the first exception.
RECURSIVE ExecSteps(_, _)
ExecSteps(m, steps) ==
  Only({ IF todo = <<>> THEN [m |-> d, exc |-> None]
         ELSE IF IsExc(todo[1]) THEN [m |-> d, exc |-> todo[1]]
         ELSE ExecSteps(Put(d, todo[1].k, todo[1].v), Tail(todo))
         : d \in {m}, todo \in {steps} })

----------------------------------------------------------------------------
(* extract_key_metrics (src/enhanced_comparison.py:88-162).                *)

\* k in x and x[k]: the guard of lines 94, 96, 114 and 119.
HasTruthy(x, k) ==
  LET c == Contains(x, k) IN
  IF IsExc(c) THEN c
  ELSE IF ~c.b THEN Bool(FALSE)
  ELSE LET v == GetItem(x, k) IN IF IsExc(v) THEN v ELSE Bool(Truthy(v))

\* Lines 94-103: the first route's first leg of the Directions response.
DirectionsLegSteps(resp) ==
  LET hasRoutes == HasTruthy(resp, "routes") IN
  IF IsExc(hasRoutes) THEN <<hasRoutes>>
  ELSE IF ~hasRoutes.b THEN <<>>
  ELSE
    LET route == Index0(GetItem(resp, "routes")) IN
    IF IsExc(route) THEN <<route>>
    ELSE
      LET hasLegs == HasTruthy(route, "legs") IN
      IF IsExc(hasLegs) THEN <<hasLegs>>
      ELSE IF ~hasLegs.b THEN <<>>
      ELSE
        LET leg == Index0(GetItem(route, "legs")) IN
        IF IsExc(leg) THEN <<leg>>
        ELSE
            << Set("directions_distance_text", DictGetGet(leg, "distance", "text", Str(""))),
               Set("directions_distance_meters", DictGetGet(leg, "distance", "value", Num(0))),
               Set("directions_duration_text", DictGetGet(leg, "duration", "text", Str(""))),
               Set("directions_duration_seconds", DictGetGet(leg, "duration", "value", Num(0))),
               Set("directions_start_address", DictGet(leg, "start_address", Str(""))),
               Set("directions_end_address", DictGet(leg, "end_address", Str(""))) >>

\* Lines 94-107: the body of the first try.
DirectionsSteps(resp) ==
  DirectionsLegSteps(resp) \o
  << Set("directions_status", DictGet(resp, "status", Str("UNKNOWN"))),
     Set("directions_response_time_ms", DictGet(resp, "_response_time_ms", Num(0))),
     Set("directions_has_error", Contains(resp, "error")) >>

\* Lines 93-110: the first try with its handler.
DirectionsBlock(m, resp) ==
  Only({ IF r.exc = None THEN r.m
         ELSE Put(r.m, "directions_extraction_error", ExcText(r.exc))
         : r \in {ExecSteps(m, DirectionsSteps(resp))} })

\* Lines 125-129: the polyline fields, set once a first leg was read.
RoutesPolylineSteps(route) ==
  LET hasPolyline == Contains(route, "polyline") IN
  IF IsExc(hasPolyline) THEN <<hasPolyline>>
  ELSE IF hasPolyline.b THEN
    LET polyline == GetItem(route, "polyline")
        encoded == IF IsExc(polyline) THEN polyline ELSE Contains(polyline, "encodedPolyline")
    IN << Set("routes_has_polyline", Bool(TRUE)),
          Set("routes_polyline_type",
              IF IsExc(encoded) THEN encoded
              ELSE IF encoded.b THEN Str("encoded_polyline") ELSE Str("geo_json")) >>
  ELSE << Set("routes_has_polyline", Bool(FALSE)) >>

\* Lines 119-129: the first leg of the Routes response's first route.
RoutesLegSteps(route) ==
  LET hasLegs == HasTruthy(route, "legs") IN
  IF IsExc(hasLegs) THEN <<hasLegs>>
  ELSE IF ~hasLegs.b THEN <<>>
  ELSE
    LET leg == Index0(GetItem(route, "legs")) IN
    IF IsExc(leg) THEN <<leg>>
    ELSE
      << Set("routes_leg_distance_meters", DictGet(leg, "distanceMeters", Num(0))),
         Set("routes_leg_duration", DictGet(leg, "duration", Str(""))) >>
      \o RoutesPolylineSteps(route)

\* Lines 114-129: the first route of the Routes response.
RoutesRouteSteps(resp) ==
  LET hasRoutes == HasTruthy(resp, "routes") IN
  IF IsExc(hasRoutes) THEN <<hasRoutes>>
  ELSE IF ~hasRoutes.b THEN <<>>
  ELSE
    LET route == Index0(GetItem(resp, "routes")) IN
    IF IsExc(route) THEN <<route>>
    ELSE
      LET head == << Set("routes_distance_meters", DictGet(route, "distanceMeters", Num(0))),
                     Set("routes_duration", DictGet(route, "duration", Str(""))) >>
      IN IF IsExc(head[1]) THEN head ELSE head \o RoutesLegSteps(route)

\* Lines 114-132: the body of the second try.
RoutesSteps(resp) ==
  RoutesRouteSteps(resp) \o
  << Set("routes_response_time_ms", DictGet(resp, "_response_time_ms", Num(0))),
     Set("routes_has_error", Contains(resp, "error")) >>

\* Mutant of DistanceComparisonSteps: the guard tests only the Directions distance.
DistanceComparisonSteps_OneGuard(m) ==
  LET dir_dist == EGet(m, "directions_distance_meters", Num(0))
      routes_dist == EGet(m, "routes_distance_meters", Num(0))
      a == Gt0(dir_dist)
  IN IF IsExc(a) THEN <<a>>
     ELSE IF ~a.b THEN <<>>
     ELSE IF routes_dist.t \notin {"num", "bool"} THEN <<Exc("TypeError")>>
     ELSE << Set("distance_difference_meters", Num(Abs(AsInt(dir_dist) - AsInt(routes_dist)))) >>

\* Lines 139-142: the distance difference.
DistanceComparisonSteps(m) ==
  LET dir_dist == EGet(m, "directions_distance_meters", Num(0))
      routes_dist == EGet(m, "routes_distance_meters", Num(0))
      a == Gt0(dir_dist)
      b == Gt0(routes_dist)
  IN IF IsExc(a) THEN <<a>>
     ELSE IF ~a.b THEN <<>>
     ELSE IF IsExc(b) THEN <<b>>
     ELSE IF ~b.b THEN <<>>
     ELSE << Set("distance_difference_meters", Num(Abs(AsInt(dir_dist) - AsInt(routes_dist)))) >>

\* Lines 144-150: the duration difference; "123s" is converted to seconds.
DurationComparisonSteps(m) ==
  LET dir_duration == EGet(m, "directions_duration_seconds", Num(0))
      routes_duration_str == EGet(m, "routes_duration", None)
      a == Gt0(dir_duration)
  IN IF IsExc(a) THEN <<a>>
     ELSE IF ~(a.b /\ Truthy(routes_duration_str)) THEN <<>>
     ELSE IF routes_duration_str.t # "str" THEN <<Exc("AttributeError")>>
     ELSE IF ~EndsWith(routes_duration_str.s, "s") THEN <<>>
     ELSE
       LET routes_duration_sec ==
             ParseFloat(SubSeq(routes_duration_str.s, 1, Len(routes_duration_str.s) - 1))
       IN IF IsExc(routes_duration_sec) THEN <<routes_duration_sec>>
          ELSE << Set("duration_difference_seconds",
                      Num(Abs(AsInt(dir_duration) - routes_duration_sec.n))) >>

\* Lines 153-157: the response time difference and the faster service.
ResponseTimeComparisonSteps(m) ==
  LET dir_time == EGet(m, "directions_response_time_ms", Num(0))
      routes_time == EGet(m, "routes_response_time_ms", Num(0))
      a == Gt0(dir_time)
      b == Gt0(routes_time)
  IN IF IsExc(a) THEN <<a>>
     ELSE IF ~a.b THEN <<>>
     ELSE IF IsExc(b) THEN <<b>>
     ELSE IF ~b.b THEN <<>>
     ELSE << Set("response_time_difference_ms", Num(Abs(AsInt(dir_time) - AsInt(routes_time)))),
             Set("faster_api",
                 IF AsInt(dir_time) < AsInt(routes_time) THEN Str("directions") ELSE Str("routes")) >>

\* Lines 139-157: the body of the comparison try.
ComparisonSteps(m) ==
  DistanceComparisonSteps(m) \o DurationComparisonSteps(m) \o ResponseTimeComparisonSteps(m)

\* Lines 138-160: the comparison try with its handler.
ComparisonBlock(m) ==
  Only({ IF r.exc = None THEN r.m
         ELSE Put(r.m, "comparison_error", ExcText(r.exc))
         : r \in { Only({ ExecSteps(d, ComparisonSteps(d)) : d \in {m} }) } })

\* Mutant of RoutesBlock: the comparison try dedented to the function's
\* level, so that it runs after every Routes extraction.
RoutesBlock_ComparisonUnnested(m, resp) ==
  Only({ ComparisonBlock(IF r.exc = None THEN r.m
                         ELSE Put(r.m, "routes_extraction_error", ExcText(r.exc)))
         : r \in {ExecSteps(m, RoutesSteps(resp))} })

\* Lines 113-160: the second try with its handler.  The comparison try is
\* indented under "except Exception as e:" of line 134, so it is part of
\* that handler and runs only when the Routes extraction raised.
RoutesBlock(m, resp) ==
  Only({ IF r.exc = None THEN r.m
         ELSE ComparisonBlock(Put(r.m, "routes_extraction_error", ExcText(r.exc)))
         : r \in {ExecSteps(m, RoutesSteps(resp))} })

\* Mutant of ExtractKeyMetrics: one try around both services' extraction, so
\* that an exception in the Directions part skips the Routes part.
ExtractKeyMetrics_OneTry(directions, routes) ==
  LET r == ExecSteps(<<>>, DirectionsSteps(directions))
  IN IF r.exc = None THEN [m |-> RoutesBlock(r.m, routes), exc |-> None]
     ELSE [m |-> Put(r.m, "directions_extraction_error", ExcText(r.exc)), exc |-> None]

\* Lines 88-162.  The outcome of the call: the returned mapping, and the
\* exception that left the function (None: both try statements catch
\* Exception, and the comparison try sits inside the second handler).
ExtractKeyMetrics(directions, routes) ==
  [m |-> RoutesBlock(DirectionsBlock(<<>>, directions), routes), exc |-> None]

----------------------------------------------------------------------------
(* The two flatteners.                                                     *)

\* ", ".join(parts)
RECURSIVE JoinComma(_)
JoinComma(parts) ==
  IF parts = <<>> THEN ""
  ELSE IF Len(parts) = 1 THEN parts[1]
  ELSE parts[1] \o ", " \o JoinComma(Tail(parts))

\* json.dumps(v) with the default separators; the model's strings hold no
\* character that JSON escapes.
RECURSIVE JsonDumps(_)
JsonDumps(v) ==
  CASE v.t = "num" -> IntStr(v.n)
    [] v.t = "str" -> "\"" \o v.s \o "\""
    [] v.t = "bool" -> IF v.b THEN "true" ELSE "false"
    [] v.t = "none" -> "null"
    [] v.t = "nan" -> "NaN"
    [] v.t = "list" -> "[" \o JoinComma([i \in 1..Len(v.l) |-> JsonDumps(v.l[i])]) \o "]"
    [] v.t = "map" ->
         "{" \o JoinComma([i \in 1..Len(v.e) |->
                     "\"" \o v.e[i][1] \o "\": " \o JsonDumps(v.e[i][2])])
         \o "}"

\* enhanced_comparison.py:169: new_key of an entry.
DictNewKey(parent_key, k) == IF parent_key # "" THEN parent_key \o US \o k ELSE k

\* Mutant of DictIndexKey: positions counted from 1.
DictIndexKey_OneBased(new_key, i) == new_key \o US \o IntStr(i + 1)

\* enhanced_comparison.py:175: the prefix of element i (0-based) of a list.
DictIndexKey(new_key, i) == new_key \o US \o IntStr(i)

RECURSIVE FlattenDict(_, _)
RECURSIVE FlattenDictList(_, _, _)
\* enhanced_comparison.py:174-175: the items of the elements from 0-based
\* position i on.
FlattenDictList(l, new_key, i) ==
  Only({ IF n >= Len(l) THEN <<>>
         ELSE FlattenDict(l[n + 1], DictIndexKey(key, n)) \o FlattenDictList(l, key, n + 1)
         : key \in {new_key}, n \in {i} })

\* enhanced_comparison.py:169-179: the items one entry adds.
FlattenDictEntry(parent_key, k, v) ==
  Only({ IF v.t = "map" THEN FlattenDict(v, new_key)
         ELSE IF v.t = "list" THEN
           IF v.l # <<>> /\ v.l[1].t = "map" THEN FlattenDictList(v.l, new_key, 0)
           ELSE << <<new_key, Str(JsonDumps(v))>> >>
         ELSE << <<new_key, v>> >>
         : new_key \in {DictNewKey(parent_key, k)} })

RECURSIVE FlattenDictItems(_, _)
\* enhanced_comparison.py:168-179: the list items after the loop over d.items().
FlattenDictItems(e, parent_key) ==
  Only({ IF d = <<>> THEN <<>>
         ELSE FlattenDictEntry(parent_key, d[1][1], d[1][2]) \o FlattenDictItems(Tail(d), parent_key)
         : d \in {e} })

\* enhanced_comparison.py:164-180: flatten_dict(d, parent_key); dict(items)
\* keeps the last value of a repeated key.
FlattenDict(d, parent_key) ==
  IF d.t = "map" THEN Update(<<>>, FlattenDictItems(d.e, parent_key)) ELSE <<>>

\* api_comparison_script.py:149: new_key of an entry.
JsonNewKey(prefix, key) == IF prefix # "" THEN prefix \o US \o key ELSE key

\* api_comparison_script.py:156: the prefix of element i (0-based) of a list.
JsonIndexKey(new_key, i) == new_key \o US \o IntStr(i)

RECURSIVE FlattenJson(_, _)
RECURSIVE FlattenJsonList(_, _, _, _)
\* api_comparison_script.py:155-156: flattened after the elements from
\* 0-based position i on were merged.
FlattenJsonList(flattened, l, new_key, i) ==
  IF i >= Len(l) THEN flattened
  ELSE FlattenJsonList(Update(flattened, FlattenJson(l[i + 1], JsonIndexKey(new_key, i))),
                       l, new_key, i + 1)

\* api_comparison_script.py:149-160: flattened after one entry.
FlattenJsonEntry(flattened, prefix, key, value) ==
  LET new_key == JsonNewKey(prefix, key) IN
  IF value.t = "map" THEN Update(flattened, FlattenJson(value, new_key))
  ELSE IF value.t = "list" THEN
    IF value.l # <<>> /\ value.l[1].t = "map" THEN FlattenJsonList(flattened, value.l, new_key, 0)
    ELSE Put(flattened, new_key, Str(JsonDumps(value)))
  ELSE Put(flattened, new_key, value)

RECURSIVE FlattenJsonLoop(_, _, _)
\* api_comparison_script.py:148-160: the loop over data.items().
FlattenJsonLoop(flattened, e, prefix) ==
  IF e = <<>> THEN flattened
  ELSE FlattenJsonLoop(FlattenJsonEntry(flattened, prefix, e[1][1], e[1][2]), Tail(e), prefix)

\* api_comparison_script.py:132-162: flatten_json(data, prefix).
FlattenJson(data, prefix) ==
  IF data.t # "map" THEN << <<prefix, data>> >>
  ELSE FlattenJsonLoop(<<>>, data.e, prefix)

----------------------------------------------------------------------------
(* The service calls.  The HTTP exchange is the environment: its outcome   *)
(* is either a parsed JSON body or a raised exception, and the elapsed     *)
(* time is a clock reading in milliseconds.                                *)

HttpOk(body) == [ok |-> TRUE, body |-> body]
HttpFailed(msg) == [ok |-> FALSE, msg |-> msg]

\* enhanced_comparison.py:37-47.  result['_response_time_ms'] = ... raises
\* TypeError on a body that is no dict, which the handler catches too.
CallDirectionsApi(outcome, elapsed) ==
  IF outcome.ok /\ outcome.body.t = "map"
  THEN Map(Put(outcome.body.e, "_response_time_ms", Num(elapsed)))
  ELSE Map(<< <<"error", IF outcome.ok THEN Str("TypeError") ELSE outcome.msg>>,
              <<"_response_time_ms", Num(elapsed)>> >>)

\* enhanced_comparison.py:76-86.
CallRoutesApi(outcome, elapsed) ==
  IF outcome.ok /\ outcome.body.t = "map"
  THEN Map(Put(outcome.body.e, "_response_time_ms", Num(elapsed)))
  ELSE Map(<< <<"error", IF outcome.ok THEN Str("TypeError") ELSE outcome.msg>>,
              <<"_response_time_ms", Num(elapsed)>> >>)

----------------------------------------------------------------------------
(* Bounded sets of response bodies.                                        *)

\* The largest elapsed time of a call, in milliseconds.
MaxElapsed == 2
ElapsedTimes == 0..MaxElapsed

\* Marks a key left out of a generated object.
Absent == [t |-> "absent"]
\* A JSON object of the listed members, those marked Absent left out.
Obj(pairs) == Map(SelectSeq(pairs, LAMBDA p : p[2] # Absent))

DirectionsDistances ==
  { Absent,
    Obj(<< <<"text", Str("5 km")>>, <<"value", Num(5000)>> >>),
    Obj(<< <<"value", Num(0)>> >>),
    Obj(<< <<"value", Str("far")>> >>),
    Num(5000) }
DirectionsDurations ==
  { Absent,
    Obj(<< <<"text", Str("10 mins")>>, <<"value", Num(600)>> >>),
    Obj(<< <<"value", Num(0)>> >>) }
DirectionsLegs ==
  { Obj(<< <<"distance", dist>>, <<"duration", dur>>,
           <<"start_address", IF dist = Absent THEN Absent ELSE Str("A")>>,
           <<"end_address", IF dur = Absent THEN Absent ELSE Str("B")>> >>) :
      dist \in DirectionsDistances, dur \in DirectionsDurations }
  \cup { Num(5) }
DirectionsRouteLists ==
  { Absent, List(<<>>), List(<< Obj(<<>>) >>), List(<< Obj(<< <<"legs", List(<<>>)>> >>) >>),
    List(<< Num(7) >>), Obj(<< <<"legs", List(<<>>)>> >>) }
  \cup { List(<< Obj(<< <<"legs", List(<<leg>>)>> >>) >>) : leg \in DirectionsLegs }
DirectionsBodies ==
  { Obj(<< <<"routes", rl>>, <<"status", Str("OK")>> >>) : rl \in DirectionsRouteLists }
  \cup { Obj(<< <<"routes", List(<<>>)>> >>), List(<<>>) }
DirectionsOutcomes ==
  { HttpOk(b) : b \in DirectionsBodies } \cup { HttpFailed(Str("Timeout")) }
DirectionsResponses ==
  { CallDirectionsApi(o, ms) : o \in DirectionsOutcomes, ms \in ElapsedTimes }

RoutesDistances == { Absent, Num(5050), Num(0), Str("far") }
RoutesDurations ==
  { Absent, Str("620s"), Str("0s"), Str("620"),
    Str("xs"), Str("s"), Num(620) }
RoutesLegLists ==
  { Absent,
    List(<< Obj(<< <<"distanceMeters", Num(5050)>>, <<"duration", Str("620s")>> >>) >>),
    List(<< Num(5) >>) }
RoutesPolylines ==
  { Absent, Obj(<< <<"encodedPolyline", Str("abc")>> >>), Obj(<<>>), Num(7) }
RoutesRoute(dm, du, lg, pl) ==
  Obj(<< <<"distanceMeters", dm>>, <<"duration", du>>, <<"legs", lg>>, <<"polyline", pl>> >>)
RoutesRoutes ==
  { RoutesRoute(dm, du, lg, Absent) :
      dm \in RoutesDistances, du \in RoutesDurations, lg \in {Absent, List(<< Num(5) >>)} }
  \cup { RoutesRoute(Num(5050), Str("620s"), lg, pl) :
           lg \in RoutesLegLists, pl \in RoutesPolylines }
  \cup { Num(7) }
RoutesBodies ==
  { Obj(<< <<"routes", List(<<rt>>)>> >>) : rt \in RoutesRoutes }
  \cup { Obj(<<>>), Obj(<< <<"routes", List(<<>>)>> >>), Num(3) }
RoutesOutcomes ==
  { HttpOk(b) : b \in RoutesBodies } \cup { HttpFailed(Str("Timeout")) }
RoutesResponses ==
  { CallRoutesApi(o, ms) : o \in RoutesOutcomes, ms \in ElapsedTimes }

\* The two responses of the end-to-end scenario.
FixtureA ==
  Obj(<< <<"routes", List(<< Obj(<< <<"legs", List(<<
           Obj(<< <<"distance", Obj(<< <<"text", Str("5 km")>>, <<"value", Num(5000)>> >>)>>,
                  <<"duration", Obj(<< <<"text", Str("10 mins")>>, <<"value", Num(600)>> >>)>>,
                  <<"start_address", Str("A")>>, <<"end_address", Str("B")>> >>) >>)>> >>) >>)>>,
         <<"status", Str("OK")>> >>)
FixtureB ==
  Obj(<< <<"routes", List(<< RoutesRoute(Num(5050), Str("620s"), Absent, Absent) >>)>> >>)

----------------------------------------------------------------------------
(* Harness of extract_key_metrics: one call on a pair of responses.        *)

LoopIdle ==
  /\ script = "none" /\ table = <<>> /\ index = 0 /\ pc = "idle"
  /\ cx_geohash = None /\ rx_geohash = None /\ coords = <<>>
  /\ directions_resp = None /\ routes_resp = None
  /\ results = <<>> /\ calls = <<>> /\ visited = <<>> /\ output = None
ExIdle ==
  /\ ex_pc = "idle" /\ ex_directions = None /\ ex_routes = None /\ ex_metrics = <<>>
FlIdle ==
  /\ fl_pc = "idle" /\ fl_tree = None /\ fl_prefix = "" /\ fl_dict = <<>> /\ fl_json = <<>>

ExtractInit ==
  /\ ex_pc = "call"
  /\ ex_directions \in DirectionsResponses
  /\ ex_routes \in RoutesResponses
  /\ ex_metrics = <<>>
  /\ LoopIdle /\ FlIdle

Extract ==
  /\ ex_pc = "call"
  /\ LET out == ExtractKeyMetrics(ex_directions, ex_routes)
     IN /\ ex_metrics' = out.m
        /\ ex_pc' = IF out.exc = None THEN "returned" ELSE "raised"
  /\ UNCHANGED <<ex_directions, ex_routes, loopVars, flVars>>

ExtractNext == Extract
ExtractSpec == ExtractInit /\ [][ExtractNext]_vars

----------------------------------------------------------------------------
(* Reading a response the way the specification names its fields.          *)

Member(x, k) == IF x.t = "map" /\ Has(x.e, k) THEN Lookup(x.e, k) ELSE Absent
FirstOf(x) == IF x.t = "list" /\ x.l # <<>> THEN x.l[1] ELSE Absent
\* A.routes[0].legs[0]
AFirstLeg(a) == FirstOf(Member(FirstOf(Member(a, "routes")), "legs"))
ADistance(a) == Member(Member(AFirstLeg(a), "distance"), "value")
ADuration(a) == Member(Member(AFirstLeg(a), "duration"), "value")
\* B.routes[0]
BFirstRoute(b) == FirstOf(Member(b, "routes"))
BDistance(b) == Member(BFirstRoute(b), "distanceMeters")
BDuration(b) == Member(BFirstRoute(b), "duration")
Successful(resp) == resp.t = "map" /\ ~Has(resp.e, "error")
StrictlyPositive(v) == (v.t = "num" /\ v.n > 0) \/ (v.t = "bool" /\ v.b)
\* v is the string "<n>s" for a run of digits n
IsSecondsText(v) ==
  /\ v.t = "str" /\ Len(v.s) >= 2 /\ Char(v.s, Len(v.s)) = "s"
  /\ \A i \in 1..(Len(v.s) - 1) : Char(v.s, i) \in DigitSet
SecondsOf(v) == DigitsVal(SubSeq(v.s, 1, Len(v.s) - 1))
NoExtractionError(m) ==
  /\ ~Has(m, "directions_extraction_error")
  /\ ~Has(m, "routes_extraction_error")
  /\ ~Has(m, "comparison_error")

\* The fixture of the specification: 5000 m / 600 s against 5050 m / "620s".
IsFixture(a, b) ==
  /\ \E ms \in ElapsedTimes : a = CallDirectionsApi(HttpOk(FixtureA), ms)
  /\ \E ms \in ElapsedTimes : b = CallRoutesApi(HttpOk(FixtureB), ms)

----------------------------------------------------------------------------
(* C1: for two successful responses extract_key_metrics returns            *)
(* distance_difference_meters = |A distance - B distance| whenever both    *)
(* distances are present and strictly positive, and                        *)
(* duration_difference_seconds = |A duration - n| whenever A's duration is *)
(* strictly positive and B's is "<n>s"; the fixture gives 50 and 20 with   *)
(* no extraction error.                                                    *)
C1_DifferencesReturned ==
  (ex_pc = "returned" /\ Successful(ex_directions) /\ Successful(ex_routes)) =>
    /\ (StrictlyPositive(ADistance(ex_directions)) /\ StrictlyPositive(BDistance(ex_routes))) =>
          /\ Has(ex_metrics, "distance_difference_meters")
          /\ Lookup(ex_metrics, "distance_difference_meters")
               = Num(Abs(AsInt(ADistance(ex_directions)) - AsInt(BDistance(ex_routes))))
    /\ (StrictlyPositive(ADuration(ex_directions)) /\ IsSecondsText(BDuration(ex_routes))) =>
          /\ Has(ex_metrics, "duration_difference_seconds")
          /\ Lookup(ex_metrics, "duration_difference_seconds")
               = Num(Abs(AsInt(ADuration(ex_directions)) - SecondsOf(BDuration(ex_routes))))
    /\ IsFixture(ex_directions, ex_routes) =>
          /\ EGet(ex_metrics, "distance_difference_meters", None) = Num(50)
          /\ EGet(ex_metrics, "duration_difference_seconds", None) = Num(20)
          /\ NoExtractionError(ex_metrics)

(* C2 as stated: a derived field is present only if both of its operands   *)
(* are present and strictly positive, B's duration being its parsed        *)
(* number of seconds.                                                      *)
C2_Original ==
  ex_pc = "returned" =>
    /\ Has(ex_metrics, "distance_difference_meters") =>
          /\ StrictlyPositive(EGet(ex_metrics, "directions_distance_meters", None))
          /\ StrictlyPositive(EGet(ex_metrics, "routes_distance_meters", None))
    /\ Has(ex_metrics, "duration_difference_seconds") =>
          /\ StrictlyPositive(EGet(ex_metrics, "directions_duration_seconds", None))
          /\ LET s == EGet(ex_metrics, "routes_duration", None)
             IN /\ s.t = "str" /\ EndsWith(s.s, "s")
                /\ StrictlyPositive(ParseFloat(SubSeq(s.s, 1, Len(s.s) - 1)))
    /\ (Has(ex_metrics, "response_time_difference_ms") \/ Has(ex_metrics, "faster_api")) =>
          /\ StrictlyPositive(EGet(ex_metrics, "directions_response_time_ms", None))
          /\ StrictlyPositive(EGet(ex_metrics, "routes_response_time_ms", None))

(* C2 as amended: distance_difference_meters implies both distances > 0;   *)
(* duration_difference_seconds implies A's duration > 0 and B's duration   *)
(* is a string ending in "s" whose prefix parses as a number (which may be *)
(* zero or negative); response_time_difference_ms and faster_api imply     *)
(* both latencies > 0.                                                     *)
C2_DerivedOnlyWhenOperandsUsable ==
  ex_pc = "returned" =>
    /\ Has(ex_metrics, "distance_difference_meters") =>
          /\ StrictlyPositive(EGet(ex_metrics, "directions_distance_meters", None))
          /\ StrictlyPositive(EGet(ex_metrics, "routes_distance_meters", None))
    /\ Has(ex_metrics, "duration_difference_seconds") =>
          /\ StrictlyPositive(EGet(ex_metrics, "directions_duration_seconds", None))
          /\ LET s == EGet(ex_metrics, "routes_duration", None)
             IN /\ s.t = "str" /\ EndsWith(s.s, "s")
                /\ ~IsExc(ParseFloat(SubSeq(s.s, 1, Len(s.s) - 1)))
    /\ (Has(ex_metrics, "response_time_difference_ms") \/ Has(ex_metrics, "faster_api")) =>
          /\ StrictlyPositive(EGet(ex_metrics, "directions_response_time_ms", None))
          /\ StrictlyPositive(EGet(ex_metrics, "routes_response_time_ms", None))

\* A call that returned both a distance and a duration difference.
C2_Witness ==
  /\ ex_pc = "returned"
  /\ Has(ex_metrics, "distance_difference_meters")
  /\ Has(ex_metrics, "duration_difference_seconds")

----------------------------------------------------------------------------
\* The entries of a metrics mapping that belong to one service.
ServicePart(m, service) == SelectSeq(m, LAMBDA p : StartsWith(p[1], service \o US))

(* C4: extract_key_metrics never raises; an exception while extracting one *)
(* service's metrics is recorded as that service's extraction_error        *)
(* string, and the other service's metrics are what its extraction alone   *)
(* yields.                                                                 *)
C4_ExtractionErrorsIsolated ==
  /\ ex_pc # "raised"
  /\ ex_pc = "returned" =>
       /\ ExecSteps(<<>>, DirectionsSteps(ex_directions)).exc # None =>
             EGet(ex_metrics, "directions_extraction_error", None).t = "str"
       /\ ExecSteps(<<>>, RoutesSteps(ex_routes)).exc # None =>
             EGet(ex_metrics, "routes_extraction_error", None).t = "str"
       /\ ServicePart(ex_metrics, "routes") = ServicePart(RoutesBlock(<<>>, ex_routes), "routes")
       /\ ServicePart(ex_metrics, "directions")
            = ServicePart(DirectionsBlock(<<>>, ex_directions), "directions")

\* The Directions extraction raised and the Routes metrics were still read.
C4_Witness ==
  /\ ex_pc = "returned"
  /\ Has(ex_metrics, "directions_extraction_error")
  /\ Has(ex_metrics, "routes_distance_meters")
  /\ Has(ex_metrics, "routes_has_error")

----------------------------------------------------------------------------
(* Harness of the flatteners: one call of each on a bounded tree.          *)

\* The largest number of nodes (mappings, lists and scalars) of a tree.
MaxTreeSize == 4
TreeKeys == { "a", "a_a" }
TreeScalars == { Num(1), Str("x") }
TreePrefixes == { "", "p" }

\* The sequences of n different keys.
KeySeqs(n) == { ks \in [1..n -> TreeKeys] : \A i, j \in 1..n : i # j => ks[i] # ks[j] }

RECURSIVE TreesOfSize(_)
RECURSIVE ForestsOfSize(_)
\* The sequences of trees of m nodes in all.
ForestsOfSize(m) ==
  IF m = 0 THEN { <<>> }
  ELSE UNION { { <<tr>> \o f : tr \in TreesOfSize(j), f \in ForestsOfSize(m - j) } : j \in 1..m }
\* The JSON-compatible trees of exactly n nodes.
TreesOfSize(n) ==
  IF n = 1 THEN TreeScalars \cup { Map(<<>>), List(<<>>) }
  ELSE { List(f) : f \in ForestsOfSize(n - 1) }
       \cup UNION { { Map([i \in 1..Len(f) |-> <<ks[i], f[i]>>]) : ks \in KeySeqs(Len(f)) } :
                    f \in { g \in ForestsOfSize(n - 1) : Len(g) <= Cardinality(TreeKeys) } }
Trees == UNION { TreesOfSize(n) : n \in 1..MaxTreeSize }

FlattenInit ==
  /\ fl_pc = "call"
  /\ fl_tree \in Trees
  /\ fl_prefix \in TreePrefixes
  /\ fl_dict = <<>> /\ fl_json = <<>>
  /\ LoopIdle /\ ExIdle

CallFlattenDict ==
  /\ fl_pc = "call"
  /\ fl_dict' = FlattenDict(fl_tree, fl_prefix)
  /\ fl_pc' = "flatten_json"
  /\ UNCHANGED <<fl_tree, fl_prefix, fl_json, loopVars, exVars>>

CallFlattenJson ==
  /\ fl_pc = "flatten_json"
  /\ fl_json' = FlattenJson(fl_tree, fl_prefix)
  /\ fl_pc' = "returned"
  /\ UNCHANGED <<fl_tree, fl_prefix, fl_dict, loopVars, exVars>>

FlattenNext == CallFlattenDict \/ CallFlattenJson
FlattenSpec == FlattenInit /\ [][FlattenNext]_vars

----------------------------------------------------------------------------
(* What the specification expects of a flattening.                         *)

RECURSIVE ConcatAll(_)
ConcatAll(ss) == IF ss = <<>> THEN <<>> ELSE ss[1] \o ConcatAll(Tail(ss))
ValuesOf(e) == [i \in 1..Len(e) |-> e[i][2]]
\* The multiset of the elements of a sequence.
BagOfSeq(s) ==
  [v \in {s[i] : i \in 1..Len(s)} |-> Cardinality({i \in 1..Len(s) : s[i] = v})]
IsScalar(v) == v.t \in {"num", "str", "bool", "none"}
IsExpandedList(v) == v.t = "list" /\ v.l # <<>> /\ v.l[1].t = "map"

\* The leaves of a tree, in order: its scalars, a list that is not expanded
\* counting as one leaf (its JSON text), and an element of an expanded list
\* that is no mapping counting as one leaf.
RECURSIVE LeafValues(_)
LeafValues(tree) ==
  IF tree.t # "map" THEN <<tree>>
  ELSE ConcatAll([i \in 1..Len(tree.e) |->
         LET v == tree.e[i][2] IN
         IF v.t = "map" THEN LeafValues(v)
         ELSE IF IsExpandedList(v) THEN ConcatAll([j \in 1..Len(v.l) |-> LeafValues(v.l[j])])
         ELSE IF v.t = "list" THEN <<Str(JsonDumps(v))>>
         ELSE <<v>>])

(* C7 on mapping-rooted trees: the multiset of the values of the flattened *)
(* mapping is the multiset of the leaves of the tree, for flatten_dict and *)
(* for flatten_json.                                                       *)
C7_NoLeafLostOrDuplicated ==
  (fl_pc = "returned" /\ fl_tree.t = "map") =>
    /\ BagOfSeq(ValuesOf(fl_json)) = BagOfSeq(LeafValues(fl_tree))
    /\ BagOfSeq(ValuesOf(fl_dict)) = BagOfSeq(LeafValues(fl_tree))

\* The items the specification lets a mapping's entries emit under prefix p,
\* Flat being the flattener applied to nested values.
ExpectedItems(Flat(_, _), e, p) ==
  ConcatAll([i \in 1..Len(e) |->
    LET k == e[i][1]
        v == e[i][2]
        pk == IF p = "" THEN k ELSE p \o "_" \o k
    IN IF v.t = "map" THEN Flat(v, pk)
       ELSE IF IsExpandedList(v)
            THEN ConcatAll([j \in 1..Len(v.l) |-> Flat(v.l[j], pk \o "_" \o IntStr(j - 1))])
       ELSE IF v.t = "list" THEN << <<pk, Str(JsonDumps(v))>> >>
       ELSE << <<pk, v>> >>])
\* The lists C8 speaks of: empty, or with a mapping or a scalar first.
CoveredByC8(tree) ==
  \A i \in 1..Len(tree.e) :
    LET v == tree.e[i][2] IN
    v.t = "list" => (v.l = <<>> \/ v.l[1].t = "map" \/ IsScalar(v.l[1]))

(* C8: for a mapping-rooted tree and prefix p, flatten emits per key k, in *)
(* key order: a scalar under p_k (k when p is empty); a mapping's          *)
(* flattening under p_k; for a list whose first element is a mapping the   *)
(* flattening of element i under p_k_i (0-based); for an empty list or a   *)
(* list whose first element is a scalar one entry p_k with its JSON text.  *)
C8_FlattenRules ==
  (fl_pc = "returned" /\ fl_tree.t = "map" /\ CoveredByC8(fl_tree)) =>
    /\ fl_dict = Update(<<>>, ExpectedItems(FlattenDict, fl_tree.e, fl_prefix))
    /\ fl_json = Update(<<>>, ExpectedItems(FlattenJson, fl_tree.e, fl_prefix))

\* {"a": [{"a": 1}]} flattened under "p" gave {"p_a_0_a": 1}.
C8_Witness ==
  /\ fl_pc = "returned"
  /\ fl_prefix = "p"
  /\ fl_tree = Map(<< <<"a", List(<< Map(<< <<"a", Num(1)>> >>) >>)>> >>)
  /\ fl_dict = << <<"p_a_0_a", Num(1)>> >>
  /\ fl_json = fl_dict

(* C9: flattening a tree whose root is no mapping under prefix p returns   *)
(* exactly {p: value}, in flatten_dict and in flatten_json.                *)
C9_NonMappingRootWrapped ==
  (fl_pc = "returned" /\ fl_tree.t # "map") =>
    /\ fl_json = << <<fl_prefix, fl_tree>> >>
    /\ fl_dict = << <<fl_prefix, fl_tree>> >>

----------------------------------------------------------------------------
(* Geohash decoding: pgh.decode, bisecting the longitude and the latitude  *)
(* interval alternately, longitude first, and returning the midpoints.     *)
(* Coordinates are exact binary fractions, counted in 1/CoordUnit degree.  *)

CoordUnit == 2^12
Float(q) == [t |-> "float", q |-> q]

Base32 ==
  "0123456789bcdefghjkmnpqrstuvwxyz"
Base32Val(c) == (CHOOSE i \in 1..Len(Base32) : Char(Base32, i) = c) - 1
\* The five bits of a symbol, high bit first.
Bits5(v) == <<(v \div 16) % 2, (v \div 8) % 2, (v \div 4) % 2, (v \div 2) % 2, v % 2>>
RECURSIVE BitsOf(_)
BitsOf(s) ==
  Only({ IF t = "" THEN <<>> ELSE Bits5(Base32Val(Head(t))) \o BitsOf(Tail(t)) : t \in {s} })
Bisect(iv, bit) ==
  Only({ IF bit = 1 THEN <<(v[1] + v[2]) \div 2, v[2]>> ELSE <<v[1], (v[1] + v[2]) \div 2>>
         : v \in {iv} })
\* The intervals after the bits from position i on; even bits (the first,
\* third, ...) narrow the longitude.
RECURSIVE Narrow(_, _, _, _)
Narrow(bits, i, lat, lng) ==
  Only({ IF n > Len(bs) THEN [lat |-> la, lng |-> lo]
         ELSE IF n % 2 = 1 THEN Narrow(bs, n + 1, la, Bisect(lo, bs[n]))
         ELSE Narrow(bs, n + 1, Bisect(la, bs[n]), lo)
         : bs \in {bits}, n \in {i}, la \in {lat}, lo \in {lng} })
\* pgh.decode(geohash): the pair (lat, lng), or the exception raised for a
\* value that is no string or holds a character outside the alphabet.
PghDecode(geohash) ==
  IF geohash.t # "str" THEN [ret |-> None, exc |-> Exc("TypeError")]
  ELSE IF \E i \in 1..Len(geohash.s) : ~IsSubstring(Char(geohash.s, i), Base32)
  THEN [ret |-> None, exc |-> Exc("KeyError")]
  ELSE Only({ [ret |-> <<Float((box.lat[1] + box.lat[2]) \div 2),
                          Float((box.lng[1] + box.lng[2]) \div 2)>>,
                exc |-> None]
              : box \in { Narrow(BitsOf(geohash.s), 1,
                                 <<0 - 90 * CoordUnit, 90 * CoordUnit>>,
                                 <<0 - 180 * CoordUnit, 180 * CoordUnit>>) } })

\* The wrapper without its try/except: a decode failure propagates.
GeohashToCoords_Unguarded(geohash) == PghDecode(geohash)
\* enhanced_comparison.py:20-25 and api_comparison_script.py:34-50: the
\* decoded pair, or (None, None) when decoding raised.
GeohashToCoords(geohash) ==
  Only({ IF d.exc # None THEN [ret |-> <<None, None>>, exc |-> None] ELSE d
         : d \in {PghDecode(geohash)} })

\* None in [cx_lat, cx_lng, rx_lat, rx_lng], testing the customer's pair only.
AnyNone_CustomerOnly(cs) == cs[1] = None \/ cs[2] = None
\* None in [cx_lat, cx_lng, rx_lat, rx_lng] (line 215; line 198 of the
\* basic script).
AnyNone(cs) == \E i \in 1..Len(cs) : cs[i] = None

----------------------------------------------------------------------------
(* Text of numbers and JSON with indent=2, as the basic script writes it.  *)

\* The decimal digits of the fraction r / CoordUnit.
RECURSIVE FracDigits(_)
FracDigits(r) ==
  Only({ IF n = 0 THEN ""
         ELSE Char(Digits, ((n * 10) \div CoordUnit) + 1) \o FracDigits((n * 10) % CoordUnit)
         : n \in {r} })
\* repr(x) of a float: the shortest text that reads back as x, which for
\* these binary fractions is the exact decimal expansion.
FloatStr(q) ==
  Only({ (IF q < 0 THEN "-" ELSE "") \o NatStr(Abs(q) \div CoordUnit) \o "."
         \o (IF frac = "" THEN "0" ELSE frac)
         : frac \in {FracDigits(Abs(q) % CoordUnit)} })

RECURSIVE JoinWith(_, _)
JoinWith(parts, sep) ==
  Only({ IF ps = <<>> THEN ""
         ELSE IF Len(ps) = 1 THEN ps[1]
         ELSE ps[1] \o sep \o JoinWith(Tail(ps), sep)
         : ps \in {parts} })
\* A newline followed by the indentation of a nesting level.
RECURSIVE NewLine(_)
NewLine(level) == IF level = 0 THEN "\n" ELSE NewLine(level - 1) \o "  "
\* json.dumps(v, indent=2) at a nesting level.
RECURSIVE JsonDumpsIndent(_, _)
JsonDumpsIndent(v, level) ==
  CASE v.t = "float" -> FloatStr(v.q)
    [] v.t = "list" ->
         IF v.l = <<>> THEN "[]"
         ELSE "[" \o NewLine(level + 1)
              \o JoinWith([i \in 1..Len(v.l) |-> JsonDumpsIndent(v.l[i], level + 1)],
                          "," \o NewLine(level + 1))
              \o NewLine(level) \o "]"
    [] v.t = "map" ->
         IF v.e = <<>> THEN "{}"
         ELSE "{" \o NewLine(level + 1)
              \o JoinWith([i \in 1..Len(v.e) |->
                            "\"" \o v.e[i][1] \o "\": "
                            \o JsonDumpsIndent(v.e[i][2], level + 1)],
                          "," \o NewLine(level + 1))
              \o NewLine(level) \o "}"
    [] OTHER -> JsonDumps(v)

----------------------------------------------------------------------------
(* The basic script's service calls and request texts                      *)
(* (src/api_comparison_script.py).                                         *)

\* The constructor's directions_api_key.
directions_api_key == "KEY"

\* api_comparison_script.py:65-78: the body, or {"error": str(e)}.
BasicCallDirectionsApi(outcome) ==
  IF outcome.ok THEN outcome.body ELSE Map(<< <<"error", outcome.msg>> >>)
\* api_comparison_script.py:94-130.
BasicCallRoutesApi(outcome) ==
  IF outcome.ok THEN outcome.body ELSE Map(<< <<"error", outcome.msg>> >>)

\* api_comparison_script.py:207: directions_url.
DirectionsUrl(cs) ==
  "https://maps.googleapis.com/maps/api/directions/json" \o "?key=" \o directions_api_key
  \o "&origin=" \o FloatStr(cs[1].q) \o "," \o FloatStr(cs[2].q)
  \o "&destination=" \o FloatStr(cs[3].q) \o "," \o FloatStr(cs[4].q)
  \o "&language=en-US"
\* api_comparison_script.py:209-227: routes_request_body.
RoutesRequestBody(cs) ==
  LET point(lat, lng) ==
        Map(<< <<"location", Map(<< <<"latLng",
              Map(<< <<"latitude", lat>>, <<"longitude", lng>> >>)>> >>)>> >>)
  IN Map(<< <<"origin", point(cs[1], cs[2])>>,
            <<"destination", point(cs[3], cs[4])>>,
            <<"languageCode", Str("en-US")>> >>)

----------------------------------------------------------------------------
(* The processing loop: process_pairs (src/enhanced_comparison.py:182-353) *)
(* and process_geohash_pairs (src/api_comparison_script.py:164-268).       *)

\* Lines 204-205 (lines 191-192 of the basic script): the row's customer
\* and restaurant cells under the first alias the table has, '' if none.
CustomerGeohash(s, row) ==
  IF s = "enhanced"
  THEN EGet(row, "CX_GH", EGet(row, "customer_geohash", EGet(row, "cx_geohash", Str(""))))
  ELSE EGet(row, "customer_geohash", EGet(row, "cx_geohash", EGet(row, "CX_GH", Str(""))))
RestaurantGeohash(s, row) ==
  IF s = "enhanced"
  THEN EGet(row, "RX_GH", EGet(row, "restaurant_geohash", EGet(row, "rx_geohash", Str(""))))
  ELSE EGet(row, "restaurant_geohash", EGet(row, "rx_geohash", EGet(row, "RX_GH", Str(""))))

\* Mutant of ResultRow: pair_index is the 0-based index.
ResultRow_ZeroBased(i, cx, rx, cs, key_metrics, directions, routes) ==
  Update(Update(Update(
    << <<"pair_index", Num(i)>>, <<"cx_geohash", cx>>, <<"rx_geohash", rx>>,
       <<"cx_lat", cs[1]>>, <<"cx_lng", cs[2]>>, <<"rx_lat", cs[3]>>, <<"rx_lng", cs[4]>> >>,
    key_metrics),
    FlattenDict(directions, "directions_full")),
    FlattenDict(routes, "routes_full"))

\* Lines 227-246: the assembled row of the enhanced script.
ResultRow(i, cx, rx, cs, key_metrics, directions, routes) ==
  Update(Update(Update(
    << <<"pair_index", Num(i + 1)>>, <<"cx_geohash", cx>>, <<"rx_geohash", rx>>,
       <<"cx_lat", cs[1]>>, <<"cx_lng", cs[2]>>, <<"rx_lat", cs[3]>>, <<"rx_lng", cs[4]>> >>,
    key_metrics),
    FlattenDict(directions, "directions_full")),
    FlattenDict(routes, "routes_full"))

\* api_comparison_script.py:234-247: result_row.
BasicResultRow(i, cx, rx, cs, directions, routes, now) ==
  << <<"pair_index", Num(i + 1)>>,
     <<"customer_geohash", cx>>, <<"restaurant_geohash", rx>>,
     <<"customer_lat", cs[1]>>, <<"customer_lng", cs[2]>>,
     <<"destination_lat", cs[3]>>, <<"destination_lng", cs[4]>>,
     <<"directions_api_url", Str(DirectionsUrl(cs))>>,
     <<"routes_api_request_body", Str(JsonDumpsIndent(RoutesRequestBody(cs), 0))>>,
     <<"directions_api_response", Str(JsonDumpsIndent(directions, 0))>>,
     <<"routes_api_response", Str(JsonDumpsIndent(routes, 0))>>,
     <<"timestamp", now>> >>

(* The output table (lines 254-309).                                       *)

InSeq(x, s) == \E i \in 1..Len(s) : s[i] = x
\* pd.DataFrame(results).columns: the keys of the rows in first-seen order.
RECURSIVE FrameColumns(_)
FrameColumns(rs) ==
  IF rs = <<>> THEN <<>>
  ELSE Only({ seen \o SelectSeq([i \in 1..Len(row) |-> row[i][1]], LAMBDA k : ~InSeq(k, seen))
              : seen \in {FrameColumns(SubSeq(rs, 1, Len(rs) - 1))}, row \in {rs[Len(rs)]} })
\* The frame of the rows under the given columns; a row without a column
\* holds the missing marker NaN there.
Frame(rs, columns) ==
  Only({ [columns |-> cols,
          rows |-> [i \in 1..Len(rs) |-> [j \in 1..Len(cols) |-> EGet(rs[i], cols[j], NaN)]]]
         : cols \in {columns} })

\* Lines 258-267.
cols_to_remove ==
  << "directions_full__response_time_ms",
     "routes_full__response_time_ms",
     "distance_difference_percent",
     "duration_difference_percent",
     "timestamp",
     "directions_response_time_ms", "routes_response_time_ms" >>
\* Line 275.
basic_cols ==
  <<"pair_index", "cx_geohash", "rx_geohash", "cx_lat", "cx_lng", "rx_lat", "rx_lng">>
\* Line 276: the substrings that mark a comparison column.
comparison_marks ==
  << "distance_difference", "duration_difference",
     "response_time_difference", "faster_api" >>
comparison_cols(columns) ==
  SelectSeq(columns, LAMBDA col : \E i \in 1..Len(comparison_marks) : IsSubstring(comparison_marks[i], col))
IsServiceCol(col) == StartsWith(col, "directions_") \/ StartsWith(col, "routes_")
IsFullCol(col) == StartsWith(col, "directions_full") \/ StartsWith(col, "routes_full")
\* Line 277.
key_metric_cols(columns) ==
  SelectSeq(columns, LAMBDA col : IsServiceCol(col) /\ ~IsFullCol(col) /\ ~InSeq(col, basic_cols))
\* Lines 280-291.
side_by_side_groups ==
  << <<"directions_distance_text", "routes_distance_meters", "directions_distance_meters">>,
     <<"directions_duration_text", "routes_duration", "directions_duration_seconds">>,
     <<"directions_full_routes_0_overview_polyline_points",
       "routes_full_routes_0_legs_0_polyline_encodedPolyline">>,
     <<"directions_full_routes_0_legs_0_distance_text",
       "routes_full_routes_0_legs_0_distanceMeters",
       "directions_full_routes_0_legs_0_distance_value">>,
     <<"directions_full_routes_0_legs_0_duration_text",
       "routes_full_routes_0_legs_0_duration",
       "directions_full_routes_0_legs_0_duration_value">> >>
\* Lines 294-298.
side_by_side_cols(columns) ==
  SelectSeq(ConcatAll(side_by_side_groups), LAMBDA col : InSeq(col, columns))
\* Line 302.
full_response_cols(columns) ==
  Only({ SelectSeq(columns, LAMBDA col : IsFullCol(col) /\ ~InSeq(col, side))
         : side \in {side_by_side_cols(columns)} })
\* Lines 301, 305.
ordered_cols(columns) ==
  Only({ basic_cols \o comparison_cols(columns) \o side
         \o SelectSeq(key_metric_cols(columns), LAMBDA col : ~InSeq(col, side))
         \o full_response_cols(columns)
         : side \in {side_by_side_cols(columns)} })
\* Mutant of OrganizedFrame: the loop of lines 270-272 that drops the
\* redundant columns is left out.
OrganizedFrame_NoRemoval(rs) ==
  Only({ Frame(rs, SelectSeq(ordered_cols(columns), LAMBDA col : InSeq(col, columns)))
         : columns \in { FrameColumns(rs) } })
\* Lines 255-309: the frame written by to_csv.
OrganizedFrame(rs) ==
  Only({ Frame(rs, SelectSeq(ordered_cols(columns), LAMBDA col : InSeq(col, columns)))
         : columns \in { SelectSeq(FrameColumns(rs), LAMBDA col : ~InSeq(col, cols_to_remove)) } })

(* The input tables and the service outcomes of a run.                     *)

\* The largest number of rows of an input table.
MaxRows == 2
\* Cells: two decodable geohashes, one with a character outside the
\* alphabet, an empty string, and the NaN pandas reads from an empty cell.
InputRows ==
  LET tu == Str("tu")
      s0 == Str("s0")
      bad == Str("!")
  IN { << <<"CX_GH", tu>>, <<"RX_GH", s0>> >>,
       << <<"CX_GH", Str("")>>, <<"RX_GH", s0>> >>,
       << <<"CX_GH", tu>>, <<"RX_GH", NaN>> >>,
       << <<"CX_GH", tu>>, <<"RX_GH", bad>> >>,
       << <<"CX_GH", tu>> >>,
       << <<"CX_GH", bad>>, <<"RX_GH", s0>>, <<"customer_geohash", tu>> >> }
\* A table's rows all have the table's columns.
Tables ==
  { t \in UNION { [1..n -> InputRows] : n \in 0..MaxRows } :
      \A i \in 1..Len(t) : [j \in 1..Len(t[i]) |-> t[i][j][1]] = [j \in 1..Len(t[1]) |-> t[1][j][1]] }
LoopDirectionsOutcomes == { HttpOk(FixtureA), HttpFailed(Str("Timeout")) }
\* The last body is a JSON object with a top-level key that no field of the
\* extraction reads.
LoopRoutesOutcomes ==
  { HttpOk(FixtureB), HttpFailed(Str("Timeout")) }
  \cup { HttpOk(Obj(<< <<"routes", List(<< RoutesRoute(Num(5050), du, List(<< Num(5) >>), Absent) >>)>> >>)) :
           du \in { Str("620s"), Str("xs") } }
  \cup { HttpOk(Obj(<< <<"faster_api", Str("routes")>> >>)) }
LoopElapsed == { MaxElapsed }
\* datetime.now().isoformat()
Timestamps == { Str("2024-01-01T00:00:00") }

Init ==
  /\ script \in {"enhanced", "basic"}
  /\ table \in Tables
  /\ index = 0 /\ pc = "loop"
  /\ cx_geohash = None /\ rx_geohash = None /\ coords = <<>>
  /\ directions_resp = None /\ routes_resp = None
  /\ results = <<>> /\ calls = <<>> /\ visited = <<>> /\ output = None
  /\ ExIdle /\ FlIdle

\* Lines 200-209: the loop enters a row, reads its two cells and skips the
\* row when either is falsy.
ReadRow ==
  /\ pc = "loop" /\ index < Len(table)
  /\ cx_geohash' = CustomerGeohash(script, table[index + 1])
  /\ rx_geohash' = RestaurantGeohash(script, table[index + 1])
  /\ visited' = Append(visited, index)
  /\ IF ~Truthy(cx_geohash') \/ ~Truthy(rx_geohash')
     THEN index' = index + 1 /\ pc' = "loop"
     ELSE index' = index /\ pc' = "decode"
  /\ UNCHANGED <<script, table, coords, directions_resp, routes_resp, results, calls, output, exVars, flVars>>

\* Lines 212-217: both geohashes are decoded; the row is skipped when a
\* coordinate is None.  An exception of the wrapper would end the run.
Decode ==
  /\ pc = "decode"
  /\ \E c \in {GeohashToCoords(cx_geohash)}, r \in {GeohashToCoords(rx_geohash)} :
        IF c.exc # None \/ r.exc # None
        THEN pc' = "aborted" /\ UNCHANGED <<coords, index>>
        ELSE /\ coords' = c.ret \o r.ret
             /\ IF AnyNone(coords')
                THEN index' = index + 1 /\ pc' = "loop"
                ELSE index' = index /\ pc' = "call_directions"
  /\ UNCHANGED <<script, table, cx_geohash, rx_geohash, directions_resp, routes_resp,
                 results, calls, visited, output, exVars, flVars>>

\* Line 220 (line 230 of the basic script).
CallDirections ==
  /\ pc = "call_directions"
  /\ \E outcome \in LoopDirectionsOutcomes, elapsed \in LoopElapsed :
       directions_resp' = IF script = "enhanced" THEN CallDirectionsApi(outcome, elapsed)
                          ELSE BasicCallDirectionsApi(outcome)
  /\ calls' = Append(calls, [api |-> "directions", row |-> index,
                             origin |-> <<coords[1], coords[2]>>,
                             destination |-> <<coords[3], coords[4]>>])
  /\ pc' = "call_routes"
  /\ UNCHANGED <<script, table, index, cx_geohash, rx_geohash, coords, routes_resp,
                 results, visited, output, exVars, flVars>>

\* Mutant of CallRoutes: the Routes call is given the restaurant as origin
\* and the customer as destination.
CallRoutes_SwappedEnds ==
  /\ pc = "call_routes"
  /\ \E outcome \in LoopRoutesOutcomes, elapsed \in LoopElapsed :
       routes_resp' = IF script = "enhanced" THEN CallRoutesApi(outcome, elapsed)
                      ELSE BasicCallRoutesApi(outcome)
  /\ calls' = Append(calls, [api |-> "routes", row |-> index,
                             origin |-> <<coords[3], coords[4]>>,
                             destination |-> <<coords[1], coords[2]>>])
  /\ pc' = "assemble"
  /\ UNCHANGED <<script, table, index, cx_geohash, rx_geohash, coords, directions_resp,
                 results, visited, output, exVars, flVars>>

\* Line 221 (line 231 of the basic script).
CallRoutes ==
  /\ pc = "call_routes"
  /\ \E outcome \in LoopRoutesOutcomes, elapsed \in LoopElapsed :
       routes_resp' = IF script = "enhanced" THEN CallRoutesApi(outcome, elapsed)
                      ELSE BasicCallRoutesApi(outcome)
  /\ calls' = Append(calls, [api |-> "routes", row |-> index,
                             origin |-> <<coords[1], coords[2]>>,
                             destination |-> <<coords[3], coords[4]>>])
  /\ pc' = "assemble"
  /\ UNCHANGED <<script, table, index, cx_geohash, rx_geohash, coords, directions_resp,
                 results, visited, output, exVars, flVars>>

\* Lines 224-251 (lines 234-252 of the basic script): the row is assembled
\* and appended, and the loop moves on.
Assemble ==
  /\ pc = "assemble"
  /\ IF script = "enhanced"
     THEN \E key_metrics \in {ExtractKeyMetrics(directions_resp, routes_resp)} :
             IF key_metrics.exc # None
             THEN pc' = "aborted" /\ UNCHANGED <<results, index>>
             ELSE /\ results' = Append(results, ResultRow(index, cx_geohash, rx_geohash, coords,
                                                          key_metrics.m, directions_resp, routes_resp))
                  /\ index' = index + 1 /\ pc' = "loop"
     ELSE \E now \in Timestamps :
            /\ results' = Append(results, BasicResultRow(index, cx_geohash, rx_geohash, coords,
                                                         directions_resp, routes_resp, now))
            /\ index' = index + 1 /\ pc' = "loop"
  /\ UNCHANGED <<script, table, cx_geohash, rx_geohash, coords, directions_resp, routes_resp,
                 calls, visited, output, exVars, flVars>>

\* The for loop is exhausted.
EndLoop ==
  /\ pc = "loop" /\ index = Len(table)
  /\ pc' = "output"
  /\ UNCHANGED <<script, table, index, cx_geohash, rx_geohash, coords, directions_resp,
                 routes_resp, results, calls, visited, output, exVars, flVars>>

\* Lines 254-309 (lines 255-257 of the basic script): the table is written
\* unless no row was assembled.
Output ==
  /\ pc = "output"
  /\ output' = IF results = <<>> THEN None
               ELSE IF script = "enhanced" THEN OrganizedFrame(results)
               ELSE Frame(results, FrameColumns(results))
  /\ pc' = "done"
  /\ UNCHANGED <<script, table, index, cx_geohash, rx_geohash, coords, directions_resp,
                 routes_resp, results, calls, visited, exVars, flVars>>

Next == ReadRow \/ Decode \/ CallDirections \/ CallRoutes \/ Assemble \/ EndLoop \/ Output
Spec == Init /\ [][Next]_vars
\* The interpreter runs the script to its end: a step that can be taken is
\* taken.
FairSpec == Spec /\ WF_vars(Next)

----------------------------------------------------------------------------
(* Claims about the processing loop.                                       *)

Last(s) == s[Len(s)]
\* The response a call returns after a transport error: the error text and
\* the elapsed time, nothing else.
TransportFailed(resp) ==
  /\ resp.t = "map" /\ KeysOf(resp.e) = {"error", "_response_time_ms"}
  /\ Lookup(resp.e, "error").t = "str"
\* The positions at which both responses belong to the last assembled row.
RowSettled == pc \in {"loop", "decode", "call_directions", "output", "done"} /\ calls # <<>>
DifferenceFields ==
  {"distance_difference_meters", "duration_difference_seconds",
   "response_time_difference_ms", "faster_api"}

(* C3: when the Service B call fails with a transport error while the      *)
(* Service A call succeeds, the row is still appended to the ResultSet; it *)
(* carries all of Service A's extracted metrics, routes_has_error true and *)
(* the flattened routes_full_error text, and none of the difference fields *)
(* (distance, duration or latency difference, faster label).               *)
C3_RowWithServiceBError ==
  (script = "enhanced" /\ RowSettled /\ Successful(directions_resp) /\ TransportFailed(routes_resp)) =>
    /\ Len(results) = Cardinality({i \in 1..Len(calls) : calls[i].api = "routes"})
    /\ LET row == Last(results)
           a == DirectionsBlock(<<>>, directions_resp)
       IN /\ Lookup(row, "pair_index") = Num(Last(calls).row + 1)
          /\ \A i \in 1..Len(a) : Has(row, a[i][1]) /\ Lookup(row, a[i][1]) = a[i][2]
          /\ ~Has(row, "directions_extraction_error")
          /\ Lookup(row, "directions_has_error") = Bool(FALSE)
          /\ Member(directions_resp, "routes") = Member(FixtureA, "routes") =>
               /\ Lookup(row, "directions_distance_meters") = Num(5000)
               /\ Lookup(row, "directions_duration_seconds") = Num(600)
               /\ Lookup(row, "directions_distance_text") = Str("5 km")
               /\ Lookup(row, "directions_status") = Str("OK")
          /\ Has(row, "routes_has_error") /\ Lookup(row, "routes_has_error") = Bool(TRUE)
          /\ Has(row, "routes_full_error")
          /\ Lookup(row, "routes_full_error") = Lookup(routes_resp.e, "error")
          /\ KeysOf(row) \cap DifferenceFields = {}

\* Service A answered the fixture, Service B timed out, both calls took
\* time, and the row was appended.
C3_Witness ==
  /\ script = "enhanced" /\ pc = "loop" /\ calls # <<>>
  /\ Member(directions_resp, "routes") = Member(FixtureA, "routes")
  /\ TransportFailed(routes_resp)
  /\ Lookup(directions_resp.e, "_response_time_ms").n > 0
  /\ Lookup(routes_resp.e, "_response_time_ms").n > 0
  /\ results # <<>> /\ Has(Last(results), "routes_full_error")

\* A cell that pgh.decode accepts.
Decodable(cell) ==
  /\ cell.t = "str" /\ cell.s # ""
  /\ \A i \in 1..Len(cell.s) : IsSubstring(Char(cell.s, i), Base32)
\* A row of which a geohash is missing, empty or undecodable.
RowFaulty(s, row) ==
  ~Decodable(CustomerGeohash(s, row)) \/ ~Decodable(RestaurantGeohash(s, row))

(* C5: for an input row in which either geohash is empty, missing or      *)
(* fails to decode, the loop appends nothing to the ResultSet (size and    *)
(* contents unchanged by that row), issues no call and goes on to the next *)
(* row; the decode wrapper returns (None, None) instead of raising.        *)
C5_FaultyRowSkipped ==
  [][ (pc \in {"loop", "decode"} /\ index < Len(table) /\ RowFaulty(script, table[index + 1])) =>
        /\ results' = results /\ calls' = calls
        /\ \/ pc = "loop" /\ pc' = "decode" /\ index' = index
           \/ pc' = "loop" /\ index' = index + 1
        /\ pc = "decode" =>
             /\ pc' = "loop"
             /\ ~Decodable(cx_geohash) => coords'[1] = None /\ coords'[2] = None
             /\ ~Decodable(rx_geohash) => coords'[3] = None /\ coords'[4] = None ]_vars

\* The first row's restaurant geohash failed to decode, nothing was
\* appended, and the loop is in the second row.
C5_Witness ==
  /\ pc = "decode" /\ index = 1 /\ RowFaulty(script, table[1])
  /\ coords # <<>> /\ coords[3] = None /\ coords[4] = None
  /\ results = <<>> /\ calls = <<>>

(* C6: for every input table and every combination of decode, transport    *)
(* and extraction failures, the run visits every input row, in order, and  *)
(* eventually reaches the end of the processing loop (the output step).    *)
C6_EveryRowVisited ==
  <>(pc = "output" /\ visited = [i \in 1..Len(table) |-> i - 1])

\* The output step is reached after a decode failure in the first row and,
\* in the second, a transport failure of Service A and an extraction
\* failure for Service B.
C6_Witness ==
  /\ pc = "output" /\ script = "enhanced" /\ Len(table) >= 2 /\ Len(visited) = Len(table)
  /\ RowFaulty(script, table[1])
  /\ Truthy(CustomerGeohash(script, table[1])) /\ Truthy(RestaurantGeohash(script, table[1]))
  /\ results # <<>>
  /\ Has(Last(results), "routes_extraction_error")
  /\ Lookup(Last(results), "directions_has_error") = Bool(TRUE)

(* C10: in the final tabular output every row of the ResultSet is present  *)
(* and every column that holds a value in at least one assembled row,      *)
(* other than the deliberately excluded columns, is present; a column      *)
(* missing from some row is padded with the missing marker for that row.   *)
C10_NoColumnDropped ==
  (script = "enhanced" /\ pc = "done" /\ results # <<>>) =>
    /\ Len(output.rows) = Len(results)
    /\ \A i \in 1..Len(results) :
         /\ \A j \in 1..Len(results[i]) :
              LET col == results[i][j][1]
              IN ~InSeq(col, cols_to_remove) =>
                   /\ InSeq(col, output.columns)
                   /\ \A c \in 1..Len(output.columns) :
                        output.columns[c] = col => output.rows[i][c] = results[i][j][2]
         /\ \A c \in 1..Len(output.columns) :
              ~Has(results[i], output.columns[c]) => output.rows[i][c] = NaN

\* The columns the output deliberately leaves out.
RedundantColumns ==
  {"directions_full__response_time_ms", "routes_full__response_time_ms",
   "directions_response_time_ms", "routes_response_time_ms",
   "distance_difference_percent", "duration_difference_percent", "timestamp"}
\* The enhanced script has written its table.
Written == script = "enhanced" /\ pc = "done" /\ output # None

(* C11: the final column set written to the output never contains any of   *)
(* the known-redundant columns (the duplicate latency columns, the percent *)
(* columns, timestamp), whatever the responses contained.                  *)
C11_RedundantColumnsExcluded ==
  Written => \A c \in 1..Len(output.columns) : output.columns[c] \notin RedundantColumns

\* A table was written from a row that holds both services' latency columns
\* and their flattened duplicates.
C11_Witness ==
  /\ Written
  /\ \E i \in 1..Len(results) :
       {"directions_response_time_ms", "routes_response_time_ms",
        "directions_full__response_time_ms", "routes_full__response_time_ms"} \subseteq KeysOf(results[i])

\* The priority group of a column: 1 basic, 2 comparison/derived, 3 curated
\* side-by-side, 4 per-service key metric, 5 flattened full response, and 0
\* for a column of no group.
ColumnGroup(col) ==
  IF col \in {"pair_index", "cx_geohash", "rx_geohash", "cx_lat", "cx_lng", "rx_lat", "rx_lng"} THEN 1
  ELSE IF \E mark \in {"distance_difference", "duration_difference",
                        "response_time_difference", "faster_api"} : IsSubstring(mark, col) THEN 2
  ELSE IF InSeq(col, ConcatAll(side_by_side_groups)) THEN 3
  ELSE IF StartsWith(col, "directions_full") \/ StartsWith(col, "routes_full") THEN 5
  ELSE IF StartsWith(col, "directions_") \/ StartsWith(col, "routes_") THEN 4
  ELSE 0

(* C12: the final column ordering lists each column exactly once and in    *)
(* fixed priority-group order: the basic columns, then the comparison      *)
(* columns, then the curated side-by-side columns, then the remaining key  *)
(* metrics, then the remaining full-response columns; no column appears in *)
(* two groups.                                                             *)
C12_ColumnsOnceInGroupOrder ==
  Written =>
    /\ \A i, j \in 1..Len(output.columns) : i < j => output.columns[i] # output.columns[j]
    /\ \A i, j \in 1..Len(output.columns) :
         i < j => ColumnGroup(output.columns[i]) <= ColumnGroup(output.columns[j])
    /\ \A k \in 1..7 : ColumnGroup(output.columns[k]) = 1

\* The latency a service call recorded in its response.
Latency(resp) == Member(resp, "_response_time_ms")

(* C13: whenever both services' latencies are present and strictly         *)
(* positive, extract_key_metrics returns response_time_difference_ms =     *)
(* |A latency - B latency| and faster_api naming the service with the      *)
(* lower latency ('directions' when A's is strictly lower, 'routes' when   *)
(* B's is strictly lower).                                                 *)
C13_LatencyDifferenceReturned ==
  (ex_pc = "returned" /\ StrictlyPositive(Latency(ex_directions)) /\ StrictlyPositive(Latency(ex_routes))) =>
    /\ Has(ex_metrics, "response_time_difference_ms")
    /\ Lookup(ex_metrics, "response_time_difference_ms")
         = Num(Abs(AsInt(Latency(ex_directions)) - AsInt(Latency(ex_routes))))
    /\ Has(ex_metrics, "faster_api")
    /\ AsInt(Latency(ex_directions)) < AsInt(Latency(ex_routes))
         => Lookup(ex_metrics, "faster_api") = Str("directions")
    /\ AsInt(Latency(ex_routes)) < AsInt(Latency(ex_directions))
         => Lookup(ex_metrics, "faster_api") = Str("routes")

\* A member that is missing or of one of the given types.
MissingOr(v, types) == v = Absent \/ v.t \in types
\* The member, or the default when it is missing.
OrDefault(v, default) == IF v = Absent THEN default ELSE v
\* A Directions response that follows the service's schema except that any
\* key may be missing at any level.
DirectionsShaped(a) ==
  /\ a.t = "map"
  /\ MissingOr(Member(a, "routes"), {"list"})
  /\ MissingOr(FirstOf(Member(a, "routes")), {"map"})
  /\ MissingOr(Member(FirstOf(Member(a, "routes")), "legs"), {"list"})
  /\ MissingOr(AFirstLeg(a), {"map"})
  /\ MissingOr(Member(AFirstLeg(a), "distance"), {"map"})
  /\ MissingOr(Member(AFirstLeg(a), "duration"), {"map"})
\* The same for a Routes response.
BFirstLeg(b) == FirstOf(Member(BFirstRoute(b), "legs"))
RoutesShaped(b) ==
  /\ b.t = "map"
  /\ MissingOr(Member(b, "routes"), {"list"})
  /\ MissingOr(BFirstRoute(b), {"map"})
  /\ MissingOr(Member(BFirstRoute(b), "legs"), {"list"})
  /\ MissingOr(BFirstLeg(b), {"map"})
  /\ MissingOr(Member(BFirstRoute(b), "polyline"), {"map"})
\* The fields read from the first leg of a Directions response, with the
\* member each is read from and its default.
DirectionsLegFields(a) ==
  << <<"directions_distance_text", Member(Member(AFirstLeg(a), "distance"), "text"), Str("")>>,
     <<"directions_distance_meters", ADistance(a), Num(0)>>,
     <<"directions_duration_text", Member(Member(AFirstLeg(a), "duration"), "text"), Str("")>>,
     <<"directions_duration_seconds", ADuration(a), Num(0)>>,
     <<"directions_start_address", Member(AFirstLeg(a), "start_address"), Str("")>>,
     <<"directions_end_address", Member(AFirstLeg(a), "end_address"), Str("")>> >>
\* The fields read from the first route of a Routes response and from its
\* first leg.
RoutesRouteFields(b) ==
  << <<"routes_distance_meters", BDistance(b), Num(0)>>,
     <<"routes_duration", BDuration(b), Str("")>> >>
RoutesLegFields(b) ==
  << <<"routes_leg_distance_meters", Member(BFirstLeg(b), "distanceMeters"), Num(0)>>,
     <<"routes_leg_duration", Member(BFirstLeg(b), "duration"), Str("")>> >>
\* Every listed field holds its member, or its default when the member is
\* missing.
FieldsDefaulted(m, fields) ==
  \A i \in 1..Len(fields) :
    Has(m, fields[i][1]) /\ Lookup(m, fields[i][1]) = OrDefault(fields[i][2], fields[i][3])
FieldsOmitted(m, fields) == \A i \in 1..Len(fields) : ~Has(m, fields[i][1])
\* status, latency and has_error of a service are extracted.
DirectionsRestExtracted(m, a) ==
  /\ ~Has(m, "directions_extraction_error")
  /\ EGet(m, "directions_status", None) = OrDefault(Member(a, "status"), Str("UNKNOWN"))
  /\ EGet(m, "directions_response_time_ms", None) = OrDefault(Latency(a), Num(0))
  /\ EGet(m, "directions_has_error", None) = Bool(Member(a, "error") # Absent)
RoutesRestExtracted(m, b) ==
  /\ ~Has(m, "routes_extraction_error")
  /\ EGet(m, "routes_response_time_ms", None) = OrDefault(Latency(b), Num(0))
  /\ EGet(m, "routes_has_error", None) = Bool(Member(b, "error") # Absent)

(* C14 as stated: for a response that lacks a key at any level of a        *)
(* field's path (no routes, no legs, no distance, no value, ...), that     *)
(* field gets its default (0 for numbers, the empty string for text) and   *)
(* every other field of the same service, status, latency and has_error    *)
(* included, is still extracted.                                           *)
C14_Original ==
  ex_pc = "returned" =>
    /\ DirectionsShaped(ex_directions) =>
          /\ FieldsDefaulted(ex_metrics, DirectionsLegFields(ex_directions))
          /\ DirectionsRestExtracted(ex_metrics, ex_directions)
    /\ RoutesShaped(ex_routes) =>
          /\ FieldsDefaulted(ex_metrics, RoutesRouteFields(ex_routes))
          /\ FieldsDefaulted(ex_metrics, RoutesLegFields(ex_routes))
          /\ RoutesRestExtracted(ex_metrics, ex_routes)

(* C14, amended: a key missing below the first leg (of the first route, for *)
(* Service B) gives that field its default; when the routes or the legs    *)
(* are missing or empty, the fields read from them are left out of the     *)
(* mapping, with no default; in every case no extraction error is recorded *)
(* and the service's other fields (status, latency, has_error) are         *)
(* extracted.                                                              *)
C14_MissingKeysTolerated ==
  ex_pc = "returned" =>
    /\ DirectionsShaped(ex_directions) =>
          /\ IF AFirstLeg(ex_directions) # Absent
             THEN FieldsDefaulted(ex_metrics, DirectionsLegFields(ex_directions))
             ELSE FieldsOmitted(ex_metrics, DirectionsLegFields(ex_directions))
          /\ DirectionsRestExtracted(ex_metrics, ex_directions)
    /\ RoutesShaped(ex_routes) =>
          /\ IF BFirstRoute(ex_routes) # Absent
             THEN FieldsDefaulted(ex_metrics, RoutesRouteFields(ex_routes))
             ELSE FieldsOmitted(ex_metrics, RoutesRouteFields(ex_routes))
          /\ IF BFirstLeg(ex_routes) # Absent
             THEN FieldsDefaulted(ex_metrics, RoutesLegFields(ex_routes))
             ELSE FieldsOmitted(ex_metrics, RoutesLegFields(ex_routes))
          /\ RoutesRestExtracted(ex_metrics, ex_routes)

\* A first leg without a distance gave 0 and the empty text, a first route
\* without a duration gave the empty string, and the other fields of both
\* services were extracted.
C14_Witness ==
  /\ ex_pc = "returned"
  /\ DirectionsShaped(ex_directions) /\ RoutesShaped(ex_routes)
  /\ AFirstLeg(ex_directions) # Absent /\ Member(AFirstLeg(ex_directions), "distance") = Absent
  /\ BFirstRoute(ex_routes) # Absent /\ BDuration(ex_routes) = Absent
  /\ EGet(ex_metrics, "directions_distance_meters", None) = Num(0)
  /\ EGet(ex_metrics, "directions_distance_text", None) = Str("")
  /\ EGet(ex_metrics, "routes_duration", None) = Str("")
  /\ EGet(ex_metrics, "directions_status", None) = Str("OK")
  /\ Has(ex_metrics, "routes_response_time_ms")

\* The calls issued so far for the 0-based input row r.
CallsOfRow(r) == SelectSeq(calls, LAMBDA c : c.row = r)
\* The pair (lat, lng) pgh.decode gives for a decodable cell.
Decoded(cell) == PghDecode(cell).ret

(* C15: no service call is issued for a row unless both of its geohashes   *)
(* were present and decoded; for a row that passes, exactly one Service A  *)
(* call is followed by exactly one Service B call with the same origin and *)
(* destination coordinates, and both complete before the row is appended   *)
(* and before any later row is decoded.                                    *)
C15_CallsPerRowInOrder ==
  /\ \A i \in 1..Len(calls) :
       LET c == calls[i]
           row == table[c.row + 1]
       IN /\ c.row < Len(table) /\ ~RowFaulty(script, row)
          /\ c.origin = Decoded(CustomerGeohash(script, row))
          /\ c.destination = Decoded(RestaurantGeohash(script, row))
          /\ c.api = IF i % 2 = 1 THEN "directions" ELSE "routes"
          /\ i % 2 = 0 => calls[i - 1].row = c.row
                          /\ calls[i - 1].origin = c.origin
                          /\ calls[i - 1].destination = c.destination
          /\ i > 2 => calls[i - 2].row < c.row
  /\ \A r \in 0..(Len(table) - 1) : Len(CallsOfRow(r)) <= 2
  /\ \A j \in 1..Len(results) :
       /\ 2 * j <= Len(calls)
       /\ Lookup(results[j], "pair_index") = Num(calls[2 * j].row + 1)
  /\ pc \in {"loop", "decode", "call_directions", "output", "done"} => Len(calls) = 2 * Len(results)
  /\ pc = "call_routes" => Len(calls) = 2 * Len(results) + 1
  /\ pc = "assemble" => Len(calls) = 2 * Len(results) + 2
  /\ pc \in {"decode", "call_directions"} => \A i \in 1..Len(calls) : calls[i].row < index

\* The first row was skipped for a faulty geohash without a call, and the
\* second row's two calls were issued with the same coordinates before the
\* row was appended.
C15_Witness ==
  /\ pc = "loop" /\ Len(table) = 2 /\ index = 2
  /\ RowFaulty(script, table[1])
  /\ Len(calls) = 2 /\ calls[1].api = "directions" /\ calls[2].api = "routes"
  /\ calls[1].row = 1 /\ calls[2].row = 1
  /\ calls[1].origin = calls[2].origin /\ calls[1].origin[1].t = "float"
  /\ calls[1].origin # calls[1].destination
  /\ Len(results) = 1

\* The 1-based positions, in input order, of the rows among the first n
\* whose two geohashes are present and decodable.
RECURSIVE ValidPositions(_)
ValidPositions(n) ==
  IF n = 0 THEN <<>>
  ELSE ValidPositions(n - 1) \o (IF RowFaulty(script, table[n]) THEN <<>> ELSE <<n>>)
\* The pair_index of every row of the ResultSet.
PairIndices == [j \in 1..Len(results) |-> Lookup(results[j], "pair_index")]

(* C16: at every point of the run the ResultSet holds exactly one row for  *)
(* each already-visited input row whose two geohashes were present and     *)
(* decodable and none for any other row, in input order (pair_index        *)
(* strictly increasing and equal to the input position + 1); a row once    *)
(* appended is never altered, reordered or removed.                        *)
C16_ResultSetGrowsInOrder ==
  /\ [](PairIndices = [j \in 1..Len(ValidPositions(index)) |-> Num(ValidPositions(index)[j])])
  /\ [][Len(results') >= Len(results) /\ SubSeq(results', 1, Len(results)) = results]_vars

\* The first row was skipped, the second appended with pair_index 2, and
\* the loop has ended.
C16_Witness ==
  /\ pc = "output" /\ Len(table) = 2
  /\ RowFaulty(script, table[1]) /\ ~RowFaulty(script, table[2])
  /\ Len(results) = 1 /\ PairIndices = <<Num(2)>>

====
